---- MODULE Spec2Model ----
(***************************************************************************)
(* Travelstar (src/app.py): a Streamlit page that logs a user in against a *)
(* MongoDB collection, asks a streamed chat-completion endpoint for an     *)
(* itinerary, extracts a JSON object from the accumulated text, renders it *)
(* and pushes it at position 0 of the user's travel_history.               *)
(*                                                                         *)
(* Text is a sequence of one-character strings.  The characters are the    *)
(* printable ASCII characters without the backslash, plus tab, newline and *)
(* carriage return.  A parsed JSON value is a tagged record:               *)
(*   [t |-> "str", v |-> characters]     [t |-> "num", v |-> literal]      *)
(*   [t |-> "lit", v |-> "true" | "false" | "null" | "NaN" | ...]          *)
(*   [t |-> "arr", v |-> sequence of values]                               *)
(*   [t |-> "obj", v |-> sequence of [k, val]]  (a dict, insertion order)  *)
(***************************************************************************)
EXTENDS Integers, Sequences, FiniteSets, TLC

(***************************************************************************)
(* Python string operations used by generate_travel_response and           *)
(* generate_itinerary.                                                     *)
(***************************************************************************)
At(s, i) == IF i \in 1..Len(s) THEN s[i] ELSE ""

JsonWs == {" ", "\t", "\n", "\r"}

RECURSIVE LStrip(_)
LStrip(s) == IF s # <<>> /\ Head(s) \in JsonWs THEN LStrip(Tail(s)) ELSE s

RECURSIVE RStrip(_)
RStrip(s) ==
    IF s # <<>> /\ s[Len(s)] \in JsonWs THEN RStrip(SubSeq(s, 1, Len(s) - 1)) ELSE s

\* str.strip()
Strip(s) == RStrip(LStrip(s))

\* str.find(c): 0-based index of the first occurrence, -1 when there is none
Find(s, c) ==
    IF \E i \in 1..Len(s) : s[i] = c
    THEN (CHOOSE i \in 1..Len(s) : s[i] = c /\ \A j \in 1..(i - 1) : s[j] # c) - 1
    ELSE -1

\* str.rfind(c): 0-based index of the last occurrence, -1 when there is none
RFind(s, c) ==
    IF \E i \in 1..Len(s) : s[i] = c
    THEN (CHOOSE i \in 1..Len(s) : s[i] = c /\ \A j \in (i + 1)..Len(s) : s[j] # c) - 1
    ELSE -1

\* one bound of a slice: a negative index counts from the end, then clamp to 0..len
SliceIndex(n, i) ==
    LET k == IF i < 0 THEN i + n ELSE i
    IN  IF k < 0 THEN 0 ELSE IF k > n THEN n ELSE k

\* s[start:end] with 0-based bounds
Slice(s, start, end) ==
    LET a == SliceIndex(Len(s), start)
        b == SliceIndex(Len(s), end)
    IN  IF a < b THEN SubSeq(s, a + 1, b) ELSE <<>>

RECURSIVE Concat(_)
Concat(ss) == IF ss = <<>> THEN <<>> ELSE Head(ss) \o Concat(Tail(ss))

(***************************************************************************)
(* json.loads on a str: the scanner of the standard library's json.decoder *)
(***************************************************************************)
Digits == {"0", "1", "2", "3", "4", "5", "6", "7", "8", "9"}

JsonFail == [ok |-> FALSE]

\* a value scanned: depth is the number of levels of the recursion limit the
\* scanner took below the call that scanned it, whether or not val keeps what
\* was scanned there: 0 for a string, a number, true, false and null, which the
\* scanner makes itself
JsonOk(val, end) == [ok |-> TRUE, val |-> val, end |-> end, depth |-> 0]

\* NaN, Infinity and -Infinity come from a call of parse_constant, which takes
\* one level
JsonConstant(val, end) == [ok |-> TRUE, val |-> val, end |-> end, depth |-> 1]

\* sys.get_int_max_str_digits(): int(text) raises ValueError for more digits
IntMaxStrDigits == 4300

\* sys.getrecursionlimit()
RecursionLimit == 1000

\* the levels of the recursion limit in use when the scanner starts on the
\* text: those of the script runner down to its exec of the page script (9:
\* the runner's thread and its calls), the page script, generate_itinerary,
\* json.loads, JSONDecoder.decode and raw_decode, and the level the interpreter
\* keeps free.  A page script run as a plain script has 6 in use.
FramesInUse == 15

\* the levels the scanner may take before it raises RecursionError: one for
\* every array or object inside another, one for NaN, Infinity or -Infinity
MaxNesting == RecursionLimit - FramesInUse

\* the scanned container with the depth of its members
Nested(r, depth) ==
    LET scanned == r
    IN  IF scanned.ok /\ scanned.depth <= depth
        THEN [scanned EXCEPT !.depth = depth]
        ELSE scanned

RECURSIVE SkipWs(_, _)
SkipWs(s, i) == IF i <= Len(s) /\ s[i] \in JsonWs THEN SkipWs(s, i + 1) ELSE i

\* \d* matched at i: the index after the run of digits that starts at i
SkipDigits(s, i) ==
    CHOOSE j \in i..(Len(s) + 1) :
        At(s, j) \notin Digits /\ \A k \in i..(j - 1) : s[k] \in Digits

\* index of the quote closing the string whose content starts at i; 0 when the
\* string is unterminated or holds a control character (strict mode)
RECURSIVE ScanString(_, _)
ScanString(s, i) ==
    IF i > Len(s) THEN 0
    ELSE IF s[i] = "\"" THEN i
    ELSE IF s[i] \in {"\t", "\n", "\r"} THEN 0
    ELSE ScanString(s, i + 1)

\* NUMBER_RE: -?(0|[1-9]\d*)(\.\d+)?([eE][-+]?\d+)? matched at i; index after the
\* match, 0 when there is no match
MatchNumber(s, i) ==
    LET j0 == IF At(s, i) = "-" THEN i + 1 ELSE i
        j1 == IF At(s, j0) = "0" THEN j0 + 1
              ELSE IF At(s, j0) \in Digits THEN SkipDigits(s, j0 + 1)
              ELSE 0
        j2 == IF At(s, j1) = "." /\ At(s, j1 + 1) \in Digits
              THEN SkipDigits(s, j1 + 2) ELSE j1
        k  == IF At(s, j2 + 1) \in {"+", "-"} THEN j2 + 2 ELSE j2 + 1
        j3 == IF At(s, j2) \in {"e", "E"} /\ At(s, k) \in Digits
              THEN SkipDigits(s, k + 1) ELSE j2
    IN  IF j1 = 0 THEN 0 ELSE j3

\* does the word w stand in s at index i
Matches(s, i, w) == i + Len(w) - 1 <= Len(s) /\ SubSeq(s, i, i + Len(w) - 1) = w

\* dict[key] = value: a key already present keeps its place and takes the value
DictPut(pairs, key, val) ==
    IF \E n \in 1..Len(pairs) : pairs[n].k = key
    THEN [n \in 1..Len(pairs) |->
            IF pairs[n].k = key THEN [k |-> key, val |-> val] ELSE pairs[n]]
    ELSE Append(pairs, [k |-> key, val |-> val])

\* the number literal that ends before end: one without fraction and exponent
\* goes to int(), which refuses more than IntMaxStrDigits digits (the sign is
\* not counted); the others go to float(), which takes any length
JSONNumber(literal, end) ==
    IF /\ \A n \in 1..Len(literal) : literal[n] \notin {".", "e", "E"}
       /\ Len(literal) - (IF literal[1] = "-" THEN 1 ELSE 0) > IntMaxStrDigits
    THEN JsonFail
    ELSE JsonOk([t |-> "num", v |-> literal], end)

RECURSIVE ScanOnce(_, _)
RECURSIVE JSONObjectPairs(_, _, _)
RECURSIVE JSONArrayItems(_, _, _)

\* the pairs of an object from the opening quote of a key at i
JSONObjectPairs(s, i, pairs) ==
    LET q == ScanString(s, i + 1)
        c == SkipWs(s, q + 1)
        r == ScanOnce(s, SkipWs(s, c + 1))
    IN  IF At(s, i) # "\"" \/ q = 0 \/ At(s, c) # ":" THEN JsonFail
        ELSE IF ~r.ok THEN JsonFail
        ELSE LET e    == SkipWs(s, r.end)
                 next == DictPut(pairs, SubSeq(s, i + 1, q - 1), r.val)
             IN  IF At(s, e) = "}"
                 THEN Nested(JsonOk([t |-> "obj", v |-> next], e + 1), r.depth + 1)
                 ELSE IF At(s, e) = ","
                 THEN Nested(JSONObjectPairs(s, SkipWs(s, e + 1), next), r.depth + 1)
                 ELSE JsonFail

\* the items of an array from the first character of an item at i
JSONArrayItems(s, i, items) ==
    LET r == ScanOnce(s, i)
    IN  IF ~r.ok THEN JsonFail
        ELSE LET e    == SkipWs(s, r.end)
                 next == Append(items, r.val)
             IN  IF At(s, e) = "]"
                 THEN Nested(JsonOk([t |-> "arr", v |-> next], e + 1), r.depth + 1)
                 ELSE IF At(s, e) = ","
                 THEN Nested(JSONArrayItems(s, SkipWs(s, e + 1), next), r.depth + 1)
                 ELSE JsonFail

\* one JSON value starting exactly at i
ScanOnce(s, i) ==
    LET c == At(s, i)
    IN  IF c = "\"" THEN
            LET q == ScanString(s, i + 1)
            IN  IF q = 0 THEN JsonFail
                ELSE JsonOk([t |-> "str", v |-> SubSeq(s, i + 1, q - 1)], q + 1)
        ELSE IF c = "{" THEN
            LET j == SkipWs(s, i + 1)
            IN  IF At(s, j) = "}" THEN Nested(JsonOk([t |-> "obj", v |-> <<>>], j + 1), 1)
                ELSE JSONObjectPairs(s, j, <<>>)
        ELSE IF c = "[" THEN
            LET j == SkipWs(s, i + 1)
            IN  IF At(s, j) = "]" THEN Nested(JsonOk([t |-> "arr", v |-> <<>>], j + 1), 1)
                ELSE JSONArrayItems(s, j, <<>>)
        ELSE IF c = "n" /\ Matches(s, i, <<"n", "u", "l", "l">>)
            THEN JsonOk([t |-> "lit", v |-> "null"], i + 4)
        ELSE IF c = "t" /\ Matches(s, i, <<"t", "r", "u", "e">>)
            THEN JsonOk([t |-> "lit", v |-> "true"], i + 4)
        ELSE IF c = "f" /\ Matches(s, i, <<"f", "a", "l", "s", "e">>)
            THEN JsonOk([t |-> "lit", v |-> "false"], i + 5)
        ELSE IF MatchNumber(s, i) # 0
            THEN JSONNumber(SubSeq(s, i, MatchNumber(s, i) - 1), MatchNumber(s, i))
        ELSE IF c = "N" /\ Matches(s, i, <<"N", "a", "N">>)
            THEN JsonConstant([t |-> "lit", v |-> "NaN"], i + 3)
        ELSE IF c = "I" /\ Matches(s, i, <<"I", "n", "f", "i", "n", "i", "t", "y">>)
            THEN JsonConstant([t |-> "lit", v |-> "Infinity"], i + 8)
        ELSE IF c = "-" /\ Matches(s, i, <<"-", "I", "n", "f", "i", "n", "i", "t", "y">>)
            THEN JsonConstant([t |-> "lit", v |-> "-Infinity"], i + 9)
        ELSE JsonFail

\* json.loads(s) as generate_itinerary calls it: [ok |-> FALSE] stands for the
\* exception it raises: JSONDecodeError, the ValueError of int(), or the
\* RecursionError of a nesting deeper than MaxNesting
JsonLoads(s) ==
    LET r == ScanOnce(s, SkipWs(s, 1))
    IN  IF r.ok /\ r.depth <= MaxNesting /\ SkipWs(s, r.end) = Len(s) + 1
        THEN [ok |-> TRUE, val |-> r.val]
        ELSE JsonFail

(***************************************************************************)
(* Python values of the page script                                        *)
(***************************************************************************)
\* None, and a str: what generate_travel_response returns
None == [isNone |-> TRUE]

Str(text) == [isNone |-> FALSE, text |-> text]

JStr(chars) == [t |-> "str", v |-> chars]

EmptyDict == [t |-> "obj", v |-> <<>>]

EmptyList == [t |-> "arr", v |-> <<>>]

\* key in d
HasKey(d, key) == d.t = "obj" /\ \E n \in 1..Len(d.v) : d.v[n].k = key

\* d.get(key, default)
Get(d, key, default) ==
    IF HasKey(d, key)
    THEN d.v[CHOOSE n \in 1..Len(d.v) : d.v[n].k = key].val
    ELSE default

DigitChars == <<"0", "1", "2", "3", "4", "5", "6", "7", "8", "9">>

DigitValue(c) == (CHOOSE n \in 1..10 : DigitChars[n] = c) - 1

\* the number a run of digits stands for, held at 10^8 once it is that large
\* (an exponent that large decides the value of a float whatever the mantissa)
RECURSIVE SaturatedInt(_, _)
SaturatedInt(digits, acc) ==
    IF digits = <<>> THEN acc
    ELSE SaturatedInt(Tail(digits),
                      IF acc >= 100000000 THEN acc ELSE 10 * acc + DigitValue(Head(digits)))

\* the significant digits of 2^-1075 = 2.470328...e-324, half the smallest
\* float above 0.0: float() rounds what is above it to 5e-324, and it and what
\* is below it to 0.0
HalfMinSubnormal ==
    << 2, 4, 7, 0, 3, 2, 8, 2, 2, 9, 2, 0, 6, 2, 3, 2, 7, 2, 0, 8, 8, 2, 8, 4, 3, 9, 6, 4, 3, 4,
       1, 1, 0, 6, 8, 6, 1, 8, 2, 5, 2, 9, 9, 0, 1, 3, 0, 7, 1, 6, 2, 3, 8, 2, 2, 1, 2, 7, 9, 2,
       8, 4, 1, 2, 5, 0, 3, 3, 7, 7, 5, 3, 6, 3, 5, 1, 0, 4, 3, 7, 5, 9, 3, 2, 6, 4, 9, 9, 1, 8,
       1, 8, 0, 8, 1, 7, 9, 9, 6, 1, 8, 9, 8, 9, 8, 2, 8, 2, 3, 4, 7, 7, 2, 2, 8, 5, 8, 8, 6, 5,
       4, 6, 3, 3, 2, 8, 3, 5, 5, 1, 7, 7, 9, 6, 9, 8, 9, 8, 1, 9, 9, 3, 8, 7, 3, 9, 8, 0, 0, 5,
       3, 9, 0, 9, 3, 9, 0, 6, 3, 1, 5, 0, 3, 5, 6, 5, 9, 5, 1, 5, 5, 7, 0, 2, 2, 6, 3, 9, 2, 2,
       9, 0, 8, 5, 8, 3, 9, 2, 4, 4, 9, 1, 0, 5, 1, 8, 4, 4, 3, 5, 9, 3, 1, 8, 0, 2, 8, 4, 9, 9,
       3, 6, 5, 3, 6, 1, 5, 2, 5, 0, 0, 3, 1, 9, 3, 7, 0, 4, 5, 7, 6, 7, 8, 2, 4, 9, 2, 1, 9, 3,
       6, 5, 6, 2, 3, 6, 6, 9, 8, 6, 3, 6, 5, 8, 4, 8, 0, 7, 5, 7, 0, 0, 1, 5, 8, 5, 7, 6, 9, 2,
       6, 9, 9, 0, 3, 7, 0, 6, 3, 1, 1, 9, 2, 8, 2, 7, 9, 5, 5, 8, 5, 5, 1, 3, 3, 2, 9, 2, 7, 8,
       3, 4, 3, 3, 8, 4, 0, 9, 3, 5, 1, 9, 7, 8, 0, 1, 5, 5, 3, 1, 2, 4, 6, 5, 9, 7, 2, 6, 3, 5,
       7, 9, 5, 7, 4, 6, 2, 2, 7, 6, 6, 4, 6, 5, 2, 7, 2, 8, 2, 7, 2, 2, 0, 0, 5, 6, 3, 7, 4, 0,
       0, 6, 4, 8, 5, 4, 9, 9, 9, 7, 7, 0, 9, 6, 5, 9, 9, 4, 7, 0, 4, 5, 4, 0, 2, 0, 8, 2, 8, 1,
       6, 6, 2, 2, 6, 2, 3, 7, 8, 5, 7, 3, 9, 3, 4, 5, 0, 7, 3, 6, 3, 3, 9, 0, 0, 7, 9, 6, 7, 7,
       6, 1, 9, 3, 0, 5, 7, 7, 5, 0, 6, 7, 4, 0, 1, 7, 6, 3, 2, 4, 6, 7, 3, 6, 0, 0, 9, 6, 8, 9,
       5, 1, 3, 4, 0, 5, 3, 5, 5, 3, 7, 4, 5, 8, 5, 1, 6, 6, 6, 1, 1, 3, 4, 2, 2, 3, 7, 6, 6, 6,
       7, 8, 6, 0, 4, 1, 6, 2, 1, 5, 9, 6, 8, 0, 4, 6, 1, 9, 1, 4, 4, 6, 7, 2, 9, 1, 8, 4, 0, 3,
       0, 0, 5, 3, 0, 0, 5, 7, 5, 3, 0, 8, 4, 9, 0, 4, 8, 7, 6, 5, 3, 9, 1, 7, 1, 1, 3, 8, 6, 5,
       9, 1, 6, 4, 6, 2, 3, 9, 5, 2, 4, 9, 1, 2, 6, 2, 3, 6, 5, 3, 8, 8, 1, 8, 7, 9, 6, 3, 6, 2,
       3, 9, 3, 7, 3, 2, 8, 0, 4, 2, 3, 8, 9, 1, 0, 1, 8, 6, 7, 2, 3, 4, 8, 4, 9, 7, 6, 6, 8, 2,
       3, 5, 0, 8, 9, 8, 6, 3, 3, 8, 8, 5, 8, 7, 9, 2, 5, 6, 2, 8, 3, 0, 2, 7, 5, 5, 9, 9, 5, 6,
       5, 7, 5, 2, 4, 4, 5, 5, 5, 0, 7, 2, 5, 5, 1, 8, 9, 3, 1, 3, 6, 9, 0, 8, 3, 6, 2, 5, 4, 7,
       7, 9, 1, 8, 6, 9, 4, 8, 6, 6, 7, 9, 9, 4, 9, 6, 8, 3, 2, 4, 0, 4, 9, 7, 0, 5, 8, 2, 1, 0,
       2, 8, 5, 1, 3, 1, 8, 5, 4, 5, 1, 3, 9, 6, 2, 1, 3, 8, 3, 7, 7, 2, 2, 8, 2, 6, 1, 4, 5, 4,
       3, 7, 6, 9, 3, 4, 1, 2, 5, 3, 2, 0, 9, 8, 5, 9, 1, 3, 2, 7, 6, 6, 7, 2, 3, 6, 3, 2, 8, 1,
       2, 5 >>

\* do the digits (characters, most significant first) stand for more than the
\* digits of threshold (numbers), both read as d.ddd...
DigitsGreater(digits, threshold) ==
    LET n    == IF Len(digits) > Len(threshold) THEN Len(digits) ELSE Len(threshold)
        a(i) == IF i <= Len(digits) THEN DigitValue(digits[i]) ELSE 0
        b(i) == IF i <= Len(threshold) THEN threshold[i] ELSE 0
    IN  \E i \in 1..n : a(i) > b(i) /\ \A j \in 1..(i - 1) : a(j) = b(j)

\* bool(n) of the number json.loads makes of a literal: int(literal) when it
\* has neither fraction nor exponent, else float(literal), which is 0.0 for a
\* zero mantissa and for a value that rounds to zero
NumberTruthy(literal) ==
    LET start  == IF literal[1] = "-" THEN 2 ELSE 1
        marks  == {i \in 1..Len(literal) : literal[i] \in {"e", "E"}}
        ePos   == IF marks = {} THEN Len(literal) + 1
                  ELSE CHOOSE i \in marks : \A j \in marks : i <= j
        dots   == {i \in 1..Len(literal) : literal[i] = "."}
        dotPos == IF dots = {} THEN ePos ELSE CHOOSE i \in dots : TRUE
        int    == SubSeq(literal, start, dotPos - 1)
        digits == int \o SubSeq(literal, dotPos + 1, ePos - 1)
        signed == ePos < Len(literal) /\ literal[ePos + 1] \in {"+", "-"}
        size   == SaturatedInt(SubSeq(literal, IF signed THEN ePos + 2 ELSE ePos + 1,
                                      Len(literal)), 0)
        exp    == IF signed /\ literal[ePos + 1] = "-" THEN 0 - size ELSE size
        nonzero == {i \in 1..Len(digits) : digits[i] # "0"}
    IN  IF nonzero = {} THEN FALSE
        ELSE IF dots = {} /\ marks = {} THEN TRUE
        ELSE LET first == CHOOSE i \in nonzero : \A j \in nonzero : i <= j
                 \* the value is d.ddd... * 10^power, d the first digit that is not 0
                 power == Len(int) - first + exp
             IN  \/ power > -324
                 \/ /\ power = -324
                    /\ DigitsGreater(SubSeq(digits, first, Len(digits)),
                                     HalfMinSubnormal)

\* bool(value)
Truthy(val) ==
    CASE val.t = "str" -> val.v # <<>>
      [] val.t = "arr" -> val.v # <<>>
      [] val.t = "obj" -> val.v # <<>>
      [] val.t = "lit" -> val.v \notin {"null", "false"}
      [] val.t = "num" -> NumberTruthy(val.v)

K_error == <<"e", "r", "r", "o", "r">>
K_itinerary_title == <<"i", "t", "i", "n", "e", "r", "a", "r", "y", "_", "t", "i", "t", "l", "e">>
K_total_budget == <<"t", "o", "t", "a", "l", "_", "b", "u", "d", "g", "e", "t">>
K_budget_breakdown == <<"b", "u", "d", "g", "e", "t", "_", "b", "r", "e", "a", "k", "d", "o", "w", "n">>
K_travel_tips == <<"t", "r", "a", "v", "e", "l", "_", "t", "i", "p", "s">>
K_daily_itinerary == <<"d", "a", "i", "l", "y", "_", "i", "t", "i", "n", "e", "r", "a", "r", "y">>
K_theme == <<"t", "h", "e", "m", "e">>
K_morning == <<"m", "o", "r", "n", "i", "n", "g">>
K_afternoon == <<"a", "f", "t", "e", "r", "n", "o", "o", "n">>
K_evening == <<"e", "v", "e", "n", "i", "n", "g">>
K_activity == <<"a", "c", "t", "i", "v", "i", "t", "y">>
K_cost == <<"c", "o", "s", "t">>
K_duration == <<"d", "u", "r", "a", "t", "i", "o", "n">>

\* the dict generate_itinerary returns from its except branch
ErrorOutcome ==
    [t |-> "obj", v |-> <<[k |-> K_error, val |-> JStr(
        <<"F", "a", "i", "l", "e", "d", " ", "t", "o", " ", "g", "e", "n", "e", "r",
          "a", "t", "e", " ", "i", "t", "i", "n", "e", "r", "a", "r", "y", ".", " ",
          "P", "l", "e", "a", "s", "e", " ", "t", "r", "y", " ", "a", "g", "a", "i",
          "n", ".">>)]>>]

(***************************************************************************)
(* generate_travel_response and generate_itinerary                         *)
(***************************************************************************)
\* a streamed chunk: choices[0].delta.content, None when the chunk has no text
Chunk(text) == [content |-> Str(text)]

EmptyChunk == [content |-> None]

\* a variant that puts the text of the chunk in front of the buffer
Accumulate_InFront(response_text, chunk) ==
    IF ~chunk.content.isNone /\ chunk.content.text # <<>>
    THEN chunk.content.text \o response_text
    ELSE response_text

\* response_text after one more chunk (the body of the for loop)
Accumulate(response_text, chunk) ==
    IF ~chunk.content.isNone /\ chunk.content.text # <<>>
    THEN response_text \o chunk.content.text
    ELSE response_text

\* the value returned when the stream is exhausted
ReturnOnExhausted(response_text) == Str(Strip(response_text))

\* a variant that returns what was collected before the exception
ReturnOnException_Partial(response_text) == Str(Strip(response_text))

\* the value returned from the except branch
ReturnOnException(response_text) == None

\* the text between the first "{" and the last "}" of the response
JsonCandidate(text) == Slice(text, Find(text, "{"), RFind(text, "}") + 1)

\* generate_itinerary, from the response of generate_travel_response on: a None
\* response raises AttributeError inside the try, which the bare except catches
generate_itinerary(response) ==
    IF response.isNone THEN ErrorOutcome
    ELSE LET r == JsonLoads(JsonCandidate(response.text))
         IN  IF r.ok THEN r.val ELSE ErrorOutcome

\* a variant of the test without the look for the "error" key
IsSuccess_Truthy(itinerary) == Truthy(itinerary)

\* the test of the main flow: itinerary and "error" not in itinerary
IsSuccess(itinerary) == Truthy(itinerary) /\ ~HasKey(itinerary, K_error)

(***************************************************************************)
(* display_itinerary_results: what it puts on the page, and when it raises *)
(***************************************************************************)
LowerCase == <<"a", "b", "c", "d", "e", "f", "g", "h", "i", "j", "k", "l", "m",
               "n", "o", "p", "q", "r", "s", "t", "u", "v", "w", "x", "y", "z">>

UpperCase == <<"A", "B", "C", "D", "E", "F", "G", "H", "I", "J", "K", "L", "M",
               "N", "O", "P", "Q", "R", "S", "T", "U", "V", "W", "X", "Y", "Z">>

IsCased(c) == \E n \in 1..Len(LowerCase) : c \in {LowerCase[n], UpperCase[n]}

ToUpper(c) ==
    IF \E n \in 1..Len(LowerCase) : c = LowerCase[n]
    THEN UpperCase[CHOOSE n \in 1..Len(LowerCase) : c = LowerCase[n]] ELSE c

ToLower(c) ==
    IF \E n \in 1..Len(UpperCase) : c = UpperCase[n]
    THEN LowerCase[CHOOSE n \in 1..Len(UpperCase) : c = UpperCase[n]] ELSE c

\* str.title(): a letter after a letter is lowered, any other letter is raised
TitleCase(s) ==
    [i \in 1..Len(s) |->
        IF i > 1 /\ IsCased(s[i - 1]) THEN ToLower(s[i]) ELSE ToUpper(s[i])]

D_title == JStr(<<"Y", "o", "u", "r", " ", "P", "e", "r", "s", "o", "n", "a", "l", "i",
                  "z", "e", "d", " ", "T", "r", "a", "v", "e", "l", " ", "P", "l", "a",
                  "n">>)
D_total_budget == JStr(<<"N", "/", "A">>)
D_theme == JStr(<<"D", "a", "i", "l", "y", " ", "A", "c", "t", "i", "v", "i", "t", "i",
                  "e", "s">>)
D_activity == JStr(<<"A", "c", "t", "i", "v", "i", "t", "y">>)
D_duration == JStr(<<"2", "-", "3", " ", "h", "o", "u", "r", "s">>)
D_cost == JStr(<<"F", "r", "e", "e">>)

TimeSlots == <<K_morning, K_afternoon, K_evening>>

\* an element a call of st.markdown, st.metric, st.expander, st.info or
\* st.error puts on the page, and one that shows a value of the run; st.columns
\* and the with blocks put no element of their own
El(name) == [el |-> name]

ElArg(name, arg) == [el |-> name, arg |-> arg]

\* the items a for loop over the value visits (enumerate(tips, 1))
Iterate(val) ==
    CASE val.t = "arr" -> val.v
      [] val.t = "obj" -> [n \in 1..Len(val.v) |-> JStr(val.v[n].k)]
      [] val.t = "str" -> [n \in 1..Len(val.v) |-> JStr(<<val.v[n]>>)]
      [] OTHER -> <<>>

\* the exceptions of display_itinerary_results before the packing list:
\* .items() and .get() exist on a dict only, st.metric takes no list or dict,
\* and a number, a bool or None is not iterable
DisplayRaises(itinerary) ==
    LET budget_data     == Get(itinerary, K_budget_breakdown, EmptyDict)
        daily_itinerary == Get(itinerary, K_daily_itinerary, EmptyDict)
        tips            == Get(itinerary, K_travel_tips, EmptyList)
    IN  \/ Truthy(budget_data) /\ budget_data.t # "obj"
        \/ /\ budget_data.t = "obj"
           /\ \E n \in 1..Len(budget_data.v) : budget_data.v[n].val.t \in {"arr", "obj"}
        \/ daily_itinerary.t # "obj"
        \/ /\ daily_itinerary.t = "obj"
           /\ \E n \in 1..Len(daily_itinerary.v) :
                LET activities == daily_itinerary.v[n].val
                IN  \/ activities.t # "obj"
                    \/ \E m \in 1..Len(TimeSlots) :
                         LET details == Get(activities, TimeSlots[m], EmptyDict)
                         IN  Truthy(details) /\ details.t # "obj"
        \/ tips.t \in {"num", "lit"}

\* the least member of a set of numbers, none when the set is empty
FirstOf(S, none) == IF S = {} THEN none ELSE CHOOSE n \in S : \A m \in S : n <= m

\* the budget metrics: [els: the elements put on the page, raises: whether an
\* exception ended the loop]; a metric whose amount is a list or a dict raises
\* before it is put on the page
BudgetElements(budget_data) ==
    IF ~Truthy(budget_data) THEN [els |-> <<>>, raises |-> FALSE]
    ELSE IF budget_data.t # "obj" THEN [els |-> <<>>, raises |-> TRUE]
    ELSE LET bad  == {n \in 1..Len(budget_data.v) :
                         budget_data.v[n].val.t \in {"arr", "obj"}}
             last == FirstOf(bad, Len(budget_data.v) + 1) - 1
         IN  [els    |-> [n \in 1..last |->
                            ElArg("metric", [label |-> TitleCase(budget_data.v[n].k),
                                             value |-> budget_data.v[n].val])],
              raises |-> bad # {}]

\* details of slot m is truthy and no dict: details.get raises
SlotRaises(activities, m) ==
    LET details == Get(activities, TimeSlots[m], EmptyDict)
    IN  Truthy(details) /\ details.t # "obj"

\* slot m of a day: its name, then its activity when details is truthy (the
\* name alone when details.get raises)
SlotElements(activities, m) ==
    LET details == Get(activities, TimeSlots[m], EmptyDict)
    IN  <<ElArg("slot", TimeSlots[m])>> \o
        IF Truthy(details) /\ details.t = "obj"
        THEN <<ElArg("activity", [activity |-> Get(details, K_activity, D_activity),
                                  duration |-> Get(details, K_duration, D_duration),
                                  cost     |-> Get(details, K_cost, D_cost)])>>
        ELSE <<>>

\* one day: activities.get('theme', ...) raises before the expander is made
\* when activities is no dict; the slots follow in order up to one that raises
DayElements(day, activities) ==
    IF activities.t # "obj" THEN [els |-> <<>>, raises |-> TRUE]
    ELSE LET bad  == {m \in 1..Len(TimeSlots) : SlotRaises(activities, m)}
             last == FirstOf(bad, Len(TimeSlots))
         IN  [els    |-> <<ElArg("expander",
                                 [day   |-> day,
                                  theme |-> Get(activities, K_theme, D_theme)])>>
                         \o Concat([m \in 1..last |-> SlotElements(activities, m)]),
              raises |-> bad # {}]

\* the days in order, up to one that raises
DailyElements(daily_itinerary) ==
    IF daily_itinerary.t # "obj" THEN [els |-> <<>>, raises |-> TRUE]
    ELSE LET days == [n \in 1..Len(daily_itinerary.v) |->
                         DayElements(daily_itinerary.v[n].k, daily_itinerary.v[n].val)]
             bad  == {n \in 1..Len(days) : days[n].raises}
             last == FirstOf(bad, Len(days))
         IN  [els    |-> Concat([n \in 1..last |-> days[n].els]),
              raises |-> bad # {}]

\* the tips, numbered from 1; a number, a bool or None is not iterable
TipsElements(tips) ==
    IF tips.t \in {"num", "lit"} THEN [els |-> <<>>, raises |-> TRUE]
    ELSE [els    |-> [n \in 1..Len(Iterate(tips)) |->
                         ElArg("info", [i |-> n, tip |-> Iterate(tips)[n]])],
          raises |-> FALSE]

\* the page from the first st.markdown on, put together from its parts: top
\* (down to the heading of the budget), the metrics, the days and the tips;
\* a part that raised is the last one
PageOf(top, budget, daily, tips) ==
    IF budget.raises THEN top \o budget.els
    ELSE IF daily.raises THEN top \o budget.els \o <<El("daily_heading")>> \o daily.els
    ELSE top \o budget.els \o <<El("daily_heading")>> \o daily.els
             \o <<El("tips_heading")>> \o tips.els
             \o (IF tips.raises THEN <<>> ELSE <<El("packing_heading")>>)

\* the elements display_itinerary_results puts on the page from its first
\* st.markdown to the heading of the packing list, in order; when it raises,
\* the elements put there before the exception
ItineraryElements(itinerary) ==
    PageOf(<<ElArg("title", Get(itinerary, K_itinerary_title, D_title)),
             ElArg("total_budget", Get(itinerary, K_total_budget, D_total_budget)),
             El("duration"),
             El("travel_style"),
             El("budget_heading")>>,
           BudgetElements(Get(itinerary, K_budget_breakdown, EmptyDict)),
           DailyElements(Get(itinerary, K_daily_itinerary, EmptyDict)),
           TipsElements(Get(itinerary, K_travel_tips, EmptyList)))

(***************************************************************************)
(* Passwords and the users collection                                      *)
(***************************************************************************)
\* hashlib.sha256(password.encode()).hexdigest(): a digest, one per password
hash_password(password) == <<"sha256", password>>

\* a variant that accepts every password
verify_password_Any(stored_password, provided_password) == TRUE

verify_password(stored_password, provided_password) ==
    stored_password = hash_password(provided_password)

\* find_one({"_id": username}) finds a document
Found(collection, username) == username \in DOMAIN collection

\* a variant without $position: $push appends at the end
PushAtPosition0_AtEnd(travel_history, entry) == travel_history \o <<entry>>

\* a variant with $set in place of $push: the array is replaced
PushAtPosition0_Set(travel_history, entry) == <<entry>>

\* $push with $each [entry] and $position 0 on the array travel_history
PushAtPosition0(travel_history, entry) == <<entry>> \o travel_history

\* update_one({"_id": username}, {"$push": ...}): no document matched, no change
UpdateOnePush(collection, username, entry) ==
    IF Found(collection, username)
    THEN [collection EXCEPT ![username].travel_history =
              PushAtPosition0(collection[username].travel_history, entry)]
    ELSE collection

\* the collections an update_one that raises can leave: the call raises when
\* the store cannot be reached, with nothing written, and also when the write
\* was applied and its acknowledgement did not arrive
UpdateOneRaises(collection, username, entry) ==
    {collection, UpdateOnePush(collection, username, entry)}

\* the collection with the new user document under _id username
InsertUser(collection, username, password) ==
    [u \in DOMAIN collection \cup {username} |->
        IF u = username
        THEN [password |-> hash_password(password), travel_history |-> <<>>]
        ELSE collection[u]]

\* a variant that replaces a document with the same _id
insert_one_Replace(collection, username, password) ==
    InsertUser(collection, username, password)

\* insert_one of the new user document: the unique index on _id refuses a
\* second document with the same _id, and the collection stays as it is
insert_one(collection, username, password) ==
    IF Found(collection, username) THEN collection
    ELSE InsertUser(collection, username, password)

(***************************************************************************)
(* Bounds and inputs                                                       *)
(***************************************************************************)
\* generation requests (clicks with a destination) in one behaviour
MaxRequests == 2

\* the seconds datetime.now() can show
Seconds == {0, 1}

\* browser sessions, each running the page script
Sessions == {"s1", "s2"}

\* usernames typed into the sidebar: one session knows one name, the other two
UsernameInputs(s) == IF s = "s1" THEN {"", "asha"} ELSE {"", "asha", "ravi"}

\* passwords typed into the Login form
PasswordInputs == {"", "pw", "qq"}

\* passwords typed into the Register form
RegisterPasswordInputs == {"", "pw"}

\* destinations typed into the form: one session plans Goa only, the other
\* Goa and Manali
DestinationInputs(s) == IF s = "s1" THEN {"", "Goa"} ELSE {"", "Goa", "Manali"}

\* responses the endpoint streams for the itinerary prompt of Goa
GoaStreams ==
    { \* Sure! {"itinerary_title":"Goa Trip"} Enjoy
      <<Chunk(<<"S", "u", "r", "e", "!", " ">>),
        Chunk(<<"{", "\"", "i", "t", "i", "n", "e", "r", "a", "r", "y", "_", "t", "i",
                "t", "l", "e", "\"", ":", "\"", "G", "o", "a", " ", "T", "r", "i", "p",
                "\"", "}">>),
        Chunk(<<" ", "E", "n", "j", "o", "y">>)>>,
      \* {}
      <<Chunk(<<"{", "}">>)>>,
      \* {"error":"x","total_budget":"5000"}
      <<Chunk(<<"{", "\"", "e", "r", "r", "o", "r", "\"", ":", "\"", "x", "\"", ",">>),
        Chunk(<<"\"", "t", "o", "t", "a", "l", "_", "b", "u", "d", "g", "e", "t", "\"",
                ":", "\"", "5", "0", "0", "0", "\"", "}">>)>>,
      \* No plan today.
      <<Chunk(<<"N", "o", " ", "p", "l", "a", "n", " ", "t", "o", "d", "a", "y", ".">>)>>,
      \* {"daily_itinerary":{"Day 1":{"morning":{"activity":"Beach"}}}}
      <<EmptyChunk,
        Chunk(<<"{", "\"", "d", "a", "i", "l", "y", "_", "i", "t", "i", "n", "e", "r",
                "a", "r", "y", "\"", ":", "{", "\"", "D", "a", "y", " ", "1", "\"", ":",
                "{", "\"", "m", "o", "r", "n", "i", "n", "g", "\"", ":", "{", "\"", "a",
                "c", "t", "i", "v", "i", "t", "y", "\"", ":", "\"", "B", "e", "a", "c",
                "h", "\"", "}", "}", "}", "}">>)>>,
      \* {"travel_tips":7}
      <<EmptyChunk,
        Chunk(<<"{", "\"", "t", "r", "a", "v", "e", "l", "_", "t", "i", "p", "s", "\"",
                ":", "7", "}">>)>> }

\* responses the endpoint streams for the itinerary prompt of Manali
ManaliStreams ==
    { \* {"itinerary_title":"Hills","travel_tips":[]}
      <<Chunk(<<"{", "\"", "i", "t", "i", "n", "e", "r", "a", "r", "y", "_", "t", "i",
                "t", "l", "e", "\"", ":", "\"", "H", "i", "l", "l", "s", "\"", ",">>),
        Chunk(<<"\"", "t", "r", "a", "v", "e", "l", "_", "t", "i", "p", "s", "\"", ":",
                "[", "]", "}">>)>>,
      \* Sorry }{
      <<Chunk(<<"S", "o", "r", "r", "y", " ", "}", "{">>)>> }

ItineraryStreams == GoaStreams \cup ManaliStreams

\* responses the endpoint streams for the packing prompt
PackingStreams ==
    { <<Chunk(<<"P", "a", "c", "k", " ", "l", "i", "g", "h", "t", ".", " ">>)>> }

\* the streams the endpoint may answer a prompt with
Streams(template, user_data) ==
    IF template = "packing_list" THEN PackingStreams
    ELSE IF user_data.destination = "Goa" THEN GoaStreams
    ELSE ManaliStreams

(***************************************************************************)
(* State                                                                   *)
(***************************************************************************)
VARIABLES
    users_collection,   \* the MongoDB collection: _id -> [password, travel_history]
    session_state,      \* per session: st.session_state [logged_in, username]
    pc,                 \* per session: where its script run stands
    local,              \* per session: the variables of its script run
    pending,            \* per session: the username and password of the sidebar
                        \* form its run is handling
    screen,             \* per session: the elements the run has put on the page
    cache,              \* st.cache_data of generate_travel_response: key -> value
    clock,              \* the last second datetime.now() returned
    requests            \* generation requests started so far

vars == <<users_collection, session_state, pc, local, pending, screen, cache,
          clock, requests>>

Unset == [t |-> "unset", v |-> <<>>]

NoLocals ==
    [user_data     |-> [destination |-> ""],
     call          |-> "none",
     stream        |-> <<>>,
     delivered     |-> 0,
     response_text |-> <<>>,
     response      |-> None,
     packing_list  |-> None,
     itinerary     |-> Unset,
     history_entry |-> [date |-> 0, destination |-> "", itinerary |-> Unset]]

NoPending == [username |-> "", password |-> ""]

Init ==
    /\ users_collection = [u \in {} |-> NoPending]
    /\ session_state = [s \in Sessions |-> [logged_in |-> FALSE, username |-> ""]]
    /\ pc = [s \in Sessions |-> "idle"]
    /\ local = [s \in Sessions |-> NoLocals]
    /\ pending = [s \in Sessions |-> NoPending]
    /\ screen = [s \in Sessions |-> <<>>]
    /\ cache = [key \in {} |-> None]
    /\ clock = 0
    /\ requests = 0


(***************************************************************************)
(* The sidebar: display_modern_auth.  The messages of the sidebar are not  *)
(* part of the modelled page; screen holds what tab1 puts on it.           *)
(***************************************************************************)
\* a session between two script runs
Ready(s) == pc[s] = "idle"

\* a new script run starts with fresh variables and an empty page
StartRun(s, next_pc, elements) ==
    /\ pc' = [pc EXCEPT ![s] = next_pc]
    /\ local' = [local EXCEPT ![s] = NoLocals]
    /\ screen' = [screen EXCEPT ![s] = elements]

\* the run ends: its variables die
EndRun(s) == StartRun(s, "idle", <<>>)

\* the Login button
Login(s, username, password) ==
    /\ Ready(s)
    /\ ~session_state[s].logged_in
    /\ IF /\ username # "" /\ password # ""
          /\ Found(users_collection, username)
          /\ verify_password(users_collection[username].password, password)
       THEN \* logged in; st.rerun() runs the page again, down to tab2
            /\ session_state' = [session_state EXCEPT
                   ![s] = [logged_in |-> TRUE, username |-> username]]
            /\ pending' = [pending EXCEPT
                   ![s] = [username |-> username, password |-> password]]
            /\ StartRun(s, "tab2", <<>>)
       ELSE \* a warning or "Invalid username or password"
            /\ EndRun(s)
            /\ UNCHANGED <<session_state, pending>>
    /\ UNCHANGED <<users_collection, cache, clock, requests>>

\* the Register button, up to the find_one that looks for the username
Register(s, username, password, confirm_password) ==
    /\ Ready(s)
    /\ ~session_state[s].logged_in
    /\ IF /\ username # "" /\ password # ""
          /\ password = confirm_password
          /\ ~Found(users_collection, username)
       THEN /\ StartRun(s, "insert_one", <<>>)
            /\ pending' = [pending EXCEPT
                   ![s] = [username |-> username, password |-> password]]
       ELSE \* a warning, "Passwords do not match" or "Username already exists"
            /\ EndRun(s)
            /\ UNCHANGED pending
    /\ UNCHANGED <<users_collection, session_state, cache, clock, requests>>

\* the insert_one of Register: "Registration successful! Please login." ends
\* the run, unless another run has inserted the username since the find_one,
\* and insert_one raises DuplicateKeyError
InsertOne(s) ==
    /\ pc[s] = "insert_one"
    /\ users_collection' =
           insert_one(users_collection, pending[s].username, pending[s].password)
    /\ IF Found(users_collection, pending[s].username)
       THEN /\ pc' = [pc EXCEPT ![s] = "duplicate_key"]
            /\ UNCHANGED <<pending, local, screen>>
       ELSE /\ pending' = [pending EXCEPT ![s] = NoPending]
            /\ EndRun(s)
    /\ UNCHANGED <<session_state, cache, clock, requests>>

\* DuplicateKeyError is not caught: it ends the run
InsertOneRaises(s) ==
    /\ pc[s] = "duplicate_key"
    /\ pending' = [pending EXCEPT ![s] = NoPending]
    /\ EndRun(s)
    /\ UNCHANGED <<users_collection, session_state, cache, clock, requests>>

\* the Logout button; st.rerun() shows the welcome page
Logout(s) ==
    /\ Ready(s)
    /\ session_state[s].logged_in
    /\ session_state' = [session_state EXCEPT
            ![s] = [logged_in |-> FALSE, username |-> ""]]
    /\ EndRun(s)
    /\ UNCHANGED <<users_collection, pending, cache, clock, requests>>

(***************************************************************************)
(* generate_travel_response under st.cache_data                            *)
(***************************************************************************)
\* the cache key: the system prompt (one per template) and the formatted user
\* prompt, which holds the destination of user_data
CacheKey(template, user_data) == <<template, user_data.destination>>

Streaming(s) == pc[s] \in {"itinerary_stream", "packing_stream"}

StreamKey(s) ==
    CacheKey(IF pc[s] = "itinerary_stream" THEN "itinerary_planner" ELSE "packing_list",
             local[s].user_data)

\* another run is computing the value of this key (st.cache_data computes a
\* missing value under a lock per key)
KeyBusy(key) == \E o \in Sessions : Streaming(o) /\ StreamKey(o) = key

\* the call generate_travel_response(system_prompt, user_prompt) of a run whose
\* variables are loc and whose page shows elements: a cached value is returned
\* into the variable result (and the st.error cached with it is replayed), else
\* the endpoint is called
CallGenerate(s, template, loc, elements, result, response_pc, stream_pc) ==
    LET key == CacheKey(template, loc.user_data)
    IN  \/ /\ key \in DOMAIN cache
           /\ local' = [local EXCEPT
                  ![s] = [loc EXCEPT !.call = "hit", ![result] = cache[key]]]
           /\ screen' = [screen EXCEPT
                  ![s] = IF cache[key].isNone
                         THEN Append(elements, El("error_ai_model")) ELSE elements]
           /\ pc' = [pc EXCEPT ![s] = response_pc]
        \/ /\ key \notin DOMAIN cache
           /\ ~KeyBusy(key)
           /\ \E chunks \in Streams(template, loc.user_data) :
                local' = [local EXCEPT
                    ![s] = [loc EXCEPT !.call = "miss", !.stream = chunks,
                                       !.delivered = 0, !.response_text = <<>>]]
           /\ screen' = [screen EXCEPT ![s] = elements]
           /\ pc' = [pc EXCEPT ![s] = stream_pc]

ResponsePc(s) ==
    IF pc[s] = "itinerary_stream" THEN "itinerary_response" ELSE "packing_response"

\* the variable the call's value is assigned to
Result(s) == IF pc[s] = "itinerary_stream" THEN "response" ELSE "packing_list"

CachePut(key, value) ==
    [k \in DOMAIN cache \cup {key} |-> IF k = key THEN value ELSE cache[k]]

\* one iteration of the for loop over the stream
StreamChunk(s) ==
    /\ Streaming(s)
    /\ local[s].delivered < Len(local[s].stream)
    /\ local' = [local EXCEPT
          ![s].delivered = @ + 1,
          ![s].response_text =
              Accumulate(@, local[s].stream[local[s].delivered + 1])]
    /\ UNCHANGED <<users_collection, session_state, pc, pending, screen, cache,
                   clock, requests>>

\* the stream is exhausted: return response_text.strip(), which is cached
StreamExhausted(s) ==
    /\ Streaming(s)
    /\ local[s].delivered = Len(local[s].stream)
    /\ LET value == ReturnOnExhausted(local[s].response_text)
       IN  /\ local' = [local EXCEPT ![s][Result(s)] = value,
                                     ![s].response_text = <<>>]
           /\ cache' = CachePut(StreamKey(s), value)
    /\ pc' = [pc EXCEPT ![s] = ResponsePc(s)]
    /\ UNCHANGED <<users_collection, session_state, pending, screen, clock, requests>>

\* the endpoint raises while the run waits for a chunk: st.error, return None,
\* which is cached
StreamException(s) ==
    /\ Streaming(s)
    /\ LET value == ReturnOnException(local[s].response_text)
       IN  /\ local' = [local EXCEPT ![s][Result(s)] = value,
                                     ![s].response_text = <<>>]
           /\ cache' = CachePut(StreamKey(s), value)
    /\ screen' = [screen EXCEPT ![s] = Append(@, El("error_ai_model"))]
    /\ pc' = [pc EXCEPT ![s] = ResponsePc(s)]
    /\ UNCHANGED <<users_collection, session_state, pending, clock, requests>>


(***************************************************************************)
(* The main flow of a logged-in run: tab1 (Plan Trip), then tab2 (My Trips) *)
(***************************************************************************)
\* the Generate My Travel Plan button, up to the call of the endpoint
Click(s, destination) ==
    /\ Ready(s)
    /\ session_state[s].logged_in
    /\ IF destination = ""
       THEN /\ StartRun(s, "tab2", <<El("error_destination")>>)
            /\ UNCHANGED requests
       ELSE /\ requests < MaxRequests
            /\ requests' = requests + 1
            /\ CallGenerate(s, "itinerary_planner",
                            [NoLocals EXCEPT !.user_data = [destination |-> destination]],
                            <<>>, "response", "itinerary_response", "itinerary_stream")
    /\ UNCHANGED <<users_collection, session_state, pending, cache, clock>>

\* a variant that saves first: add_to_history is called before
\* display_itinerary_results
AfterItinerary_SaveFirst(itinerary) ==
    IF IsSuccess(itinerary) THEN "update_one" ELSE "tab2"

\* where the main flow goes on with the value of generate_itinerary: to
\* display_itinerary_results when it passes the test, else to the end of tab1
AfterItinerary(itinerary) ==
    IF IsSuccess(itinerary) THEN "display" ELSE "tab2"

\* generate_itinerary returns and the main flow tests its value; a value that
\* fails the test ends tab1 with nothing more on the page
ItineraryReturned(s) ==
    /\ pc[s] = "itinerary_response"
    /\ LET value == generate_itinerary(local[s].response)
       IN  /\ local' = [local EXCEPT ![s].itinerary = value]
           /\ pc' = [pc EXCEPT ![s] = AfterItinerary(value)]
    /\ UNCHANGED <<users_collection, session_state, pending, screen, cache, clock,
                   requests>>

\* add_to_history builds history_entry with the time of the call
BuildEntry(s, loc) ==
    \E now \in {t \in Seconds : t >= clock} :
        /\ clock' = now
        /\ local' = [local EXCEPT
              ![s] = [loc EXCEPT !.history_entry =
                         [date        |-> now,
                          destination |-> loc.user_data.destination,
                          itinerary   |-> loc.itinerary]]]

\* an exception no code of the page catches: the script runner puts it on the
\* page below the elements the run has put there, and the run ends
Uncaught(elements) == Append(elements, El("exception"))

\* display_itinerary_results down to its call of generate_travel_response for
\* the packing list; an exception ends the run with the elements put on the
\* page before it
display_itinerary_results(s) ==
    /\ pc[s] = "display"
    /\ IF HasKey(local[s].itinerary, K_error)
       THEN /\ screen' = [screen EXCEPT ![s] = Append(@, El("error_generate"))]
            /\ BuildEntry(s, local[s])
            /\ pc' = [pc EXCEPT ![s] = "update_one"]
       ELSE IF DisplayRaises(local[s].itinerary)
       THEN /\ screen' = [screen EXCEPT
                   ![s] = Uncaught(@ \o ItineraryElements(local[s].itinerary))]
            /\ pc' = [pc EXCEPT ![s] = "exception"]
            /\ UNCHANGED <<local, clock>>
       ELSE /\ CallGenerate(s, "packing_list", local[s],
                            screen[s] \o ItineraryElements(local[s].itinerary),
                            "packing_list", "packing_response", "packing_stream")
            /\ UNCHANGED clock
    /\ UNCHANGED <<users_collection, session_state, pending, cache, requests>>

\* a variant in which a packing list that failed ends tab1
AfterPacking_StopOnFailure(packing_list) ==
    IF packing_list.isNone THEN "tab2" ELSE "update_one"

\* where the run goes on after the packing list: display_itinerary_results
\* returns whatever packing_list is, and add_to_history is next
AfterPacking(packing_list) == "update_one"

\* the packing list is shown when it is truthy; display_itinerary_results
\* returns and add_to_history builds its entry
PackingReturned(s) ==
    /\ pc[s] = "packing_response"
    /\ screen' = [screen EXCEPT
          ![s] = IF ~local[s].packing_list.isNone /\ local[s].packing_list.text # <<>>
                 THEN Append(@, ElArg("packing", local[s].packing_list.text)) ELSE @]
    /\ BuildEntry(s, local[s])
    /\ pc' = [pc EXCEPT ![s] = AfterPacking(local[s].packing_list)]
    /\ UNCHANGED <<users_collection, session_state, pending, cache, requests>>

\* the update_one of add_to_history, then the weather line
UpdateOne(s) ==
    /\ pc[s] = "update_one"
    /\ users_collection' = UpdateOnePush(users_collection, session_state[s].username,
                                         local[s].history_entry)
    /\ screen' = [screen EXCEPT ![s] = Append(@, El("weather"))]
    /\ pc' = [pc EXCEPT ![s] = "tab2"]
    /\ UNCHANGED <<session_state, local, pending, cache, clock, requests>>

\* the update_one of add_to_history raises: no code of the page catches the
\* exception, and the run ends without the weather line
UpdateOneFails(s) ==
    /\ pc[s] = "update_one"
    /\ users_collection' \in UpdateOneRaises(users_collection, session_state[s].username,
                                             local[s].history_entry)
    /\ screen' = [screen EXCEPT ![s] = Uncaught(@)]
    /\ pc' = [pc EXCEPT ![s] = "exception"]
    /\ UNCHANGED <<session_state, local, pending, cache, clock, requests>>

\* display_travel_history (find_one, then the entries) ends the run; so does
\* the exception display_itinerary_results raised
display_travel_history(s) ==
    /\ pc[s] \in {"tab2", "exception"}
    /\ EndRun(s)
    /\ pending' = [pending EXCEPT ![s] = NoPending]
    /\ UNCHANGED <<users_collection, session_state, cache, clock, requests>>

\* a run of a logged-in session with no button pressed: the form and My Trips
Rerun(s) ==
    /\ Ready(s)
    /\ session_state[s].logged_in
    /\ StartRun(s, "tab2", <<>>)
    /\ UNCHANGED <<users_collection, session_state, pending, cache, clock, requests>>

Next ==
    \E s \in Sessions :
        \/ \E username \in UsernameInputs(s), password \in PasswordInputs :
               Login(s, username, password)
        \/ \E username \in UsernameInputs(s), password, confirm \in RegisterPasswordInputs :
               Register(s, username, password, confirm)
        \/ InsertOne(s)
        \/ InsertOneRaises(s)
        \/ Logout(s)
        \/ \E destination \in DestinationInputs(s) : Click(s, destination)
        \/ StreamChunk(s)
        \/ StreamExhausted(s)
        \/ StreamException(s)
        \/ ItineraryReturned(s)
        \/ display_itinerary_results(s)
        \/ PackingReturned(s)
        \/ UpdateOne(s)
        \/ UpdateOneFails(s)
        \/ display_travel_history(s)
        \/ Rerun(s)

Spec == Init /\ [][Next]_vars

(***************************************************************************)
(* The adapter alone: one run that has just called the endpoint, for every *)
(* stream of at most MaxChunks chunks                                      *)
(***************************************************************************)
MaxChunks == 4

AdapterChunks ==
    { Chunk(<<"{">>),
      Chunk(<<"}">>),
      Chunk(<<"\"", "a", "\"", ":", "\"", "b", "\"">>),
      Chunk(<<"O", "k", " ">>),
      Chunk(<<" ", "{", "\"", "a", "\"", ":", "\"", "b", "\"", "}", " ">>),
      EmptyChunk }

\* a run of as many digits as int() takes
LongDigits == [n \in 1..IntMaxStrDigits |-> "1"]

\* objects with one long integer: {"a":1...1} with IntMaxStrDigits digits and
\* with one more, and {"a":-1...1} with IntMaxStrDigits digits after the sign
LongIntegerStreams ==
    { <<Chunk(<<"{", "\"", "a", "\"", ":">>), Chunk(LongDigits), Chunk(<<"}">>)>>,
      <<Chunk(<<"{", "\"", "a", "\"", ":", "1">>), Chunk(LongDigits), Chunk(<<"}">>)>>,
      <<Chunk(<<"{", "\"", "a", "\"", ":", "-">>), Chunk(LongDigits), Chunk(<<"}">>)>> }

AdapterStreams ==
    UNION {[1..n -> AdapterChunks] : n \in 0..MaxChunks} \cup LongIntegerStreams

AdapterInit ==
    /\ users_collection = InsertUser([u \in {} |-> NoPending], "asha", "pw")
    /\ session_state =
           [s \in Sessions |-> IF s = "s1" THEN [logged_in |-> TRUE, username |-> "asha"]
                               ELSE [logged_in |-> FALSE, username |-> ""]]
    /\ pc = [s \in Sessions |-> IF s = "s1" THEN "itinerary_stream" ELSE "idle"]
    /\ \E chunks \in AdapterStreams :
           local = [s \in Sessions |->
                       IF s = "s1"
                       THEN [NoLocals EXCEPT !.user_data = [destination |-> "Goa"],
                                             !.call = "miss", !.stream = chunks]
                       ELSE NoLocals]
    /\ pending = [s \in Sessions |-> NoPending]
    /\ screen = [s \in Sessions |-> <<>>]
    /\ cache = [key \in {} |-> None]
    /\ clock = 0
    /\ requests = 1

AdapterNext ==
    \E s \in Sessions :
        \/ StreamChunk(s)
        \/ StreamExhausted(s)
        \/ StreamException(s)
        \/ ItineraryReturned(s)

SpecAdapter == AdapterInit /\ [][AdapterNext]_vars

(***************************************************************************)
(* Properties                                                              *)
(***************************************************************************)
ChunkText(chunk) == IF chunk.content.isNone THEN <<>> ELSE chunk.content.text

\* the text of the first n chunks of a stream
StreamText(chunks, n) == Concat([i \in 1..n |-> ChunkText(chunks[i])])

\* the itinerary of the run of s has been assigned
HasItinerary(s) == local[s].itinerary.t # "unset"

\* the response of the run of s is a text whose candidate parses
ParsedObject(s) ==
    /\ HasItinerary(s)
    /\ ~local[s].response.isNone
    /\ JsonLoads(JsonCandidate(local[s].response.text)).ok

Parsed(s) == JsonLoads(JsonCandidate(local[s].response.text)).val

\* tab1 of the run of s is over: tab2 is next, or an exception ended the run
Tab1Over(s) == pc[s] \in {"tab2", "exception"}

\* does the sequence part stand in the sequence whole, in one piece
Holds(whole, part) ==
    \E n \in 0..(Len(whole) - Len(part)) : SubSeq(whole, n + 1, n + Len(part)) = part

\* the page of s shows the itinerary of its run: every element of it, down to
\* the heading of the packing list
Rendered(s) ==
    /\ HasItinerary(s)
    /\ ~DisplayRaises(local[s].itinerary)
    /\ Holds(screen[s], ItineraryElements(local[s].itinerary))

\* the history of the user of s holds the entry its run built from its itinerary
Saved(s) ==
    /\ local[s].history_entry.itinerary = local[s].itinerary
    /\ Found(users_collection, session_state[s].username)
    /\ LET h == users_collection[session_state[s].username].travel_history
       IN  \E n \in 1..Len(h) : h[n] = local[s].history_entry

\* the page of s shows an error
ErrorShown(s) ==
    \E n \in 1..Len(screen[s]) : screen[s][n].el \in {"error_ai_model", "error_generate"}

\* the itineraries the complete responses of the endpoint parse to
FullItineraries ==
    {JsonLoads(JsonCandidate(Strip(StreamText(chunks, Len(chunks))))).val :
        chunks \in {c \in ItineraryStreams :
            JsonLoads(JsonCandidate(Strip(StreamText(c, Len(c))))).ok}}

(***************************************************************************)
(* The sidebar alone: registration, login and logout with every username   *)
(* and password the forms are given, from an empty collection or from one  *)
(* in which asha has a trip and a second registration of asha has passed   *)
(* its find_one before asha was inserted                                   *)
(***************************************************************************)
\* the value generate_travel_response returns for a stream that ends
Response(chunks) == ReturnOnExhausted(StreamText(chunks, Len(chunks)))

\* the streams of Manali whose itinerary is rendered and saved
SavedStreams ==
    {chunks \in ManaliStreams :
        LET itinerary == generate_itinerary(Response(chunks))
        IN  IsSuccess(itinerary) /\ ~DisplayRaises(itinerary)}

RegisterInit ==
    /\ session_state = [s \in Sessions |-> [logged_in |-> FALSE, username |-> ""]]
    /\ local = [s \in Sessions |-> NoLocals]
    /\ screen = [s \in Sessions |-> <<>>]
    /\ \/ /\ users_collection = [u \in {} |-> NoPending]
          /\ pc = [s \in Sessions |-> "idle"]
          /\ pending = [s \in Sessions |-> NoPending]
          /\ cache = [key \in {} |-> None]
          /\ clock = 0
          /\ requests = 0
       \/ \E chunks \in SavedStreams, packing \in PackingStreams, now \in Seconds,
             password \in PasswordInputs \ {""} :
             /\ users_collection =
                    UpdateOnePush(InsertUser([u \in {} |-> NoPending], "asha", "pw"),
                                  "asha",
                                  [date        |-> now,
                                   destination |-> "Manali",
                                   itinerary   |-> generate_itinerary(Response(chunks))])
             /\ pc = [s \in Sessions |-> IF s = "s2" THEN "insert_one" ELSE "idle"]
             /\ pending = [s \in Sessions |->
                              IF s = "s2"
                              THEN [username |-> "asha", password |-> password]
                              ELSE NoPending]
             /\ cache = [key \in {<<"itinerary_planner", "Manali">>,
                                   <<"packing_list", "Manali">>} |->
                            IF key[1] = "itinerary_planner" THEN Response(chunks)
                            ELSE Response(packing)]
             /\ clock = now
             /\ requests = 1

RegisterNext ==
    \E s \in Sessions :
        \/ \E username \in UsernameInputs(s), password \in PasswordInputs :
               Login(s, username, password)
        \/ \E username \in UsernameInputs(s), password, confirm \in PasswordInputs :
               Register(s, username, password, confirm)
        \/ InsertOne(s)
        \/ InsertOneRaises(s)
        \/ Logout(s)
        \/ display_travel_history(s)
        \/ Rerun(s)

SpecRegister == RegisterInit /\ [][RegisterNext]_vars

\* C1: every itinerary in a history is the parse of a complete response, is a
\* dict and has no "error" key; and add_to_history is only under way (its
\* update_one pending) in a run whose generate_itinerary returned the parsed
\* object of its response, which passed the success test
C1_HistoryHoldsOnlySuccesses ==
    /\ \A u \in DOMAIN users_collection :
         \A n \in 1..Len(users_collection[u].travel_history) :
            LET it == users_collection[u].travel_history[n].itinerary
            IN  /\ it.t = "obj"
                /\ ~HasKey(it, K_error)
                /\ it \in FullItineraries
    /\ \A s \in Sessions :
         pc[s] = "update_one" =>
            /\ ParsedObject(s)
            /\ local[s].itinerary = Parsed(s)
            /\ IsSuccess(local[s].itinerary)
            /\ local[s].history_entry.itinerary = local[s].itinerary

\* C1 witness: a history holds an entry while a run whose generation failed has
\* just finished tab1
C1_Witness ==
    \E s \in Sessions :
        /\ pc[s] = "tab2"
        /\ local[s].itinerary = ErrorOutcome
        /\ \E u \in DOMAIN users_collection : users_collection[u].travel_history # <<>>

\* C2 (as claimed): a request whose response parses to a JSON object, the
\* object with no fields included, renders the itinerary and saves an entry
\* holding it
C2_Original ==
    \A s \in Sessions :
        (Tab1Over(s) /\ ParsedObject(s) /\ local[s].user_data.destination # "")
            => (Rendered(s) /\ Saved(s))

\* C3 (as claimed): a request whose generation failed (no response, or no
\* JSON in it) shows an error before tab1 is over
C3_Original ==
    \A s \in Sessions :
        (Tab1Over(s) /\ HasItinerary(s) /\ ~ParsedObject(s)) => ErrorShown(s)

\* C4: a step changes the history of a user only by putting the entry of a
\* run at update_one in front of it (the update_one returns, or raises with
\* the write applied); nothing else changes it, and no document is removed
C4_PrependOnly ==
    [][\A u \in DOMAIN users_collection :
          /\ u \in DOMAIN users_collection'
          /\ \/ users_collection'[u].travel_history = users_collection[u].travel_history
             \/ \E s \in Sessions :
                  /\ pc[s] = "update_one"
                  /\ pc'[s] \in {"tab2", "exception"}
                  /\ session_state[s].username = u
                  /\ users_collection'[u].travel_history =
                        <<local[s].history_entry>> \o users_collection[u].travel_history]_vars

\* C4 witness: a history of two entries, the later one first
C4_Witness ==
    \E u \in DOMAIN users_collection :
        LET h == users_collection[u].travel_history
        IN  Len(h) = 2 /\ h[1].date > h[2].date

\* C5: the entries of all runs of a user that have finished add_to_history
\* and are still under way are all in the history, which is at least as long
\* as they are many
C5_NoLostAppend ==
    \A u \in DOMAIN users_collection :
        LET done == {s \in Sessions :
                        /\ pc[s] = "tab2"
                        /\ local[s].history_entry.itinerary.t # "unset"
                        /\ session_state[s].username = u}
            h    == users_collection[u].travel_history
        IN  /\ Len(h) >= Cardinality(done)
            /\ \A s \in done : \E n \in 1..Len(h) : h[n] = local[s].history_entry

\* C5 witness: two runs of one user have both pushed an entry built in the
\* same second, and the history holds two entries
C5_Witness ==
    \E s, o \in Sessions :
        /\ s # o
        /\ pc[s] = "tab2" /\ pc[o] = "tab2"
        /\ session_state[s].username = session_state[o].username
        /\ local[s].history_entry.itinerary.t # "unset"
        /\ local[o].history_entry = local[s].history_entry
        /\ Len(users_collection[session_state[s].username].travel_history) = 2

\* the text from the first "{" to the last "}" of a text, empty when there is
\* no such pair
BraceSpan(text) ==
    LET opens  == {i \in 1..Len(text) : text[i] = "{"}
        closes == {i \in 1..Len(text) : text[i] = "}"}
    IN  IF opens = {} \/ closes = {} THEN <<>>
        ELSE LET first == CHOOSE i \in opens : \A j \in opens : i <= j
                 last  == CHOOSE i \in closes : \A j \in closes : j <= i
             IN  IF first <= last THEN SubSeq(text, first, last) ELSE <<>>

\* the least index from i on whose character is not in the set, Len(s) + 1
\* when every character from i on is in it
RunEnd(s, i, chars) ==
    CHOOSE j \in i..(Len(s) + 1) :
        At(s, j) \notin chars /\ \A k \in i..(j - 1) : s[k] \in chars

\* the grammar of JSON (RFC 8259) over the characters of the model, which have
\* no backslash: the index after the string, the number or the value that
\* starts at i, 0 when none starts there
GrammarStringEnd(s, i) ==
    LET q == FirstOf({j \in (i + 1)..Len(s) : s[j] = "\""}, 0)
    IN  IF At(s, i) # "\"" \/ q = 0 THEN 0
        ELSE IF \E j \in (i + 1)..(q - 1) : s[j] \in {"\t", "\n", "\r"} THEN 0
        ELSE q + 1

GrammarNumberEnd(s, i) ==
    LET int  == IF At(s, i) = "-" THEN i + 1 ELSE i
        frac == IF At(s, int) = "0" THEN int + 1 ELSE RunEnd(s, int, Digits)
        exp  == IF At(s, frac) = "." /\ RunEnd(s, frac + 1, Digits) > frac + 1
                THEN RunEnd(s, frac + 1, Digits) ELSE frac
        sign == IF At(s, exp + 1) \in {"+", "-"} THEN exp + 2 ELSE exp + 1
    IN  IF frac = int THEN 0
        ELSE IF At(s, exp) \in {"e", "E"} /\ RunEnd(s, sign, Digits) > sign
        THEN RunEnd(s, sign, Digits) ELSE exp

RECURSIVE GrammarValueEnd(_, _)
RECURSIVE GrammarMembersEnd(_, _)
RECURSIVE GrammarElementsEnd(_, _)

\* member *( "," member ) "}" from the first character of a member
GrammarMembersEnd(s, i) ==
    LET name  == GrammarStringEnd(s, i)
        colon == RunEnd(s, name, JsonWs)
        value == GrammarValueEnd(s, RunEnd(s, colon + 1, JsonWs))
        next  == RunEnd(s, value, JsonWs)
    IN  IF name = 0 \/ At(s, colon) # ":" \/ value = 0 THEN 0
        ELSE IF At(s, next) = "}" THEN next + 1
        ELSE IF At(s, next) = "," THEN GrammarMembersEnd(s, RunEnd(s, next + 1, JsonWs))
        ELSE 0

\* value *( "," value ) "]" from the first character of a value
GrammarElementsEnd(s, i) ==
    LET value == GrammarValueEnd(s, i)
        next  == RunEnd(s, value, JsonWs)
    IN  IF value = 0 THEN 0
        ELSE IF At(s, next) = "]" THEN next + 1
        ELSE IF At(s, next) = "," THEN GrammarElementsEnd(s, RunEnd(s, next + 1, JsonWs))
        ELSE 0

GrammarValueEnd(s, i) ==
    LET c     == At(s, i)
        inner == RunEnd(s, i + 1, JsonWs)
    IN  IF c = "{"
        THEN IF At(s, inner) = "}" THEN inner + 1 ELSE GrammarMembersEnd(s, inner)
        ELSE IF c = "["
        THEN IF At(s, inner) = "]" THEN inner + 1 ELSE GrammarElementsEnd(s, inner)
        ELSE IF c = "\"" THEN GrammarStringEnd(s, i)
        ELSE IF Matches(s, i, <<"t", "r", "u", "e">>) THEN i + 4
        ELSE IF Matches(s, i, <<"f", "a", "l", "s", "e">>) THEN i + 5
        ELSE IF Matches(s, i, <<"n", "u", "l", "l">>) THEN i + 4
        ELSE GrammarNumberEnd(s, i)

\* the text is a JSON object: an object of the grammar, with nothing but
\* whitespace around it
IsJsonObject(text) ==
    LET start == RunEnd(text, 1, JsonWs)
        end   == GrammarValueEnd(text, start)
    IN  At(text, start) = "{" /\ end # 0 /\ RunEnd(text, end, JsonWs) = Len(text) + 1

\* C6 (as claimed): generate_itinerary returns a success, the object and not
\* the error outcome, exactly when the text from the first "{" to the last "}"
\* of the response is a JSON object
C6_Original ==
    \A s \in Sessions :
        (HasItinerary(s) /\ ~local[s].response.isNone) =>
            (local[s].itinerary # ErrorOutcome
                <=> IsJsonObject(BraceSpan(local[s].response.text)))

\* C7: when the endpoint raised during the itinerary call (its st.error is the
\* first element of the page), the itinerary is the error outcome and the run
\* neither renders nor saves
C7_FailureDiscardsPartialText ==
    \A s \in Sessions :
        (HasItinerary(s) /\ screen[s] # <<>> /\ screen[s][1].el = "error_ai_model")
            => /\ local[s].itinerary = ErrorOutcome
               /\ pc[s] = "tab2"
               /\ local[s].history_entry.itinerary.t = "unset"

\* C7 witness: the endpoint raised after chunks that hold a whole object
C7_Witness ==
    \E s \in Sessions :
        /\ HasItinerary(s)
        /\ local[s].call = "miss"
        /\ local[s].response.isNone
        /\ local[s].delivered >= 1
        /\ JsonLoads(JsonCandidate(Strip(
               StreamText(local[s].stream, local[s].delivered)))).ok
        /\ local[s].itinerary = ErrorOutcome

KnownKeys == {K_itinerary_title, K_total_budget, K_budget_breakdown, K_travel_tips,
              K_daily_itinerary}

\* C8 (as claimed): a parsed object with a top-level field outside the schema,
\* whatever its name, is rendered and saved
C8_Original ==
    \A s \in Sessions :
        (/\ Tab1Over(s)
         /\ ParsedObject(s)
         /\ \E n \in 1..Len(Parsed(s).v) : Parsed(s).v[n].k \notin KnownKeys)
            => (Rendered(s) /\ Saved(s))

\* C9 (as claimed): the itinerary of the entry a run saves has an empty
\* mapping for an absent budget_breakdown or daily_itinerary and an empty
\* sequence for an absent travel_tips, and each day has exactly the slots of
\* the parsed object, unchanged
C9_Original ==
    \A s \in Sessions :
        pc[s] = "update_one" =>
            LET stored == local[s].history_entry.itinerary
                days   == Get(Parsed(s), K_daily_itinerary, EmptyDict)
            IN  /\ Get(stored, K_budget_breakdown, Unset) =
                       Get(Parsed(s), K_budget_breakdown, EmptyDict)
                /\ Get(stored, K_travel_tips, Unset) =
                       Get(Parsed(s), K_travel_tips, EmptyList)
                /\ Get(stored, K_daily_itinerary, Unset) = days
                /\ \A n \in 1..Len(days.v), m \in 1..Len(TimeSlots) :
                       Get(Get(Get(stored, K_daily_itinerary, EmptyDict),
                               days.v[n].k, EmptyDict), TimeSlots[m], Unset)
                           = Get(days.v[n].val, TimeSlots[m], Unset)

\* C10 (as claimed): every call of generate_travel_response invokes the
\* endpoint; none is answered from an earlier call
C10_Original == \A s \in Sessions : local[s].call \in {"none", "miss"}

\* C11 (as claimed): whenever the update_one of add_to_history is about to
\* run, the page already shows the itinerary of the run; and when it raises,
\* the page still shows the itinerary and no history has changed
C11_Original ==
    [][\A s \in Sessions :
          pc[s] = "update_one" =>
             /\ Rendered(s)
             /\ pc'[s] = "exception" =>
                   /\ Holds(screen'[s], ItineraryElements(local'[s].itinerary))
                   /\ users_collection' = users_collection]_vars

\* C11: whenever the update_one of add_to_history is about to run, the page
\* already shows the itinerary of the run; and when it raises, the run keeps
\* its itinerary, the page keeps every element it had (the itinerary among
\* them), the history of the user of the run is as it was or has the entry of
\* the run put in front of it, and no other document changes
C11_StoreFailureKeepsItinerary ==
    /\ [](\A s \in Sessions : pc[s] = "update_one" => Rendered(s))
    /\ [][\A s \in Sessions :
          (pc[s] = "update_one" /\ pc'[s] = "exception") =>
                   LET u == session_state[s].username
                   IN  /\ local'[s].itinerary = local[s].itinerary
                       /\ SubSeq(screen'[s], 1, Len(screen[s])) = screen[s]
                       /\ Holds(screen'[s], ItineraryElements(local'[s].itinerary))
                       /\ DOMAIN users_collection' = DOMAIN users_collection
                       /\ \A o \in DOMAIN users_collection \ {u} :
                              users_collection'[o] = users_collection[o]
                       /\ users_collection'[u].password = users_collection[u].password
                       /\ users_collection'[u].travel_history \in
                              {users_collection[u].travel_history,
                               <<local[s].history_entry>>
                                   \o users_collection[u].travel_history}]_vars

\* C11 witness: the write of a run has failed; its itinerary is on the page
\* above the exception and the history of its user is empty
C11_Witness ==
    \E s \in Sessions :
        /\ pc[s] = "exception"
        /\ local[s].history_entry.itinerary.t # "unset"
        /\ Rendered(s)
        /\ screen[s][Len(screen[s])].el = "exception"
        /\ users_collection[session_state[s].username].travel_history = <<>>

\* C12: during a call of the endpoint the buffer is the text of the chunks
\* delivered so far, joined in the order of delivery (a chunk without text
\* adds nothing), and the buffer after one more chunk is the buffer before it
\* followed by the text of that chunk
C12_ConcatenatesInDeliveryOrder ==
    [][\A s \in Sessions :
          Streaming(s) =>
             /\ local[s].response_text =
                    StreamText(local[s].stream, local[s].delivered)
             /\ local'[s].delivered = local[s].delivered + 1 =>
                    local'[s].response_text =
                        local[s].response_text
                            \o ChunkText(local[s].stream[local'[s].delivered])]_vars

\* C12 witness: three chunks are delivered, the second without text, the
\* first and the third with different texts
C12_Witness ==
    \E s \in Sessions :
        /\ Streaming(s)
        /\ local[s].delivered = 3
        /\ local[s].stream[2] = EmptyChunk
        /\ ChunkText(local[s].stream[1]) # <<>>
        /\ ChunkText(local[s].stream[3]) # <<>>
        /\ local[s].stream[1] # local[s].stream[3]
        /\ local[s].response_text =
               ChunkText(local[s].stream[1]) \o ChunkText(local[s].stream[3])

\* C13: a run goes on from the existence check of Register to insert_one only
\* with a username that has no document, and changes nothing on the way; and
\* the insert_one of a run leaves every document there is (its digest and its
\* history) as it is and adds at most the document of its own username
C13_RegistrationNeverReplaces ==
    [][\A s \in Sessions :
          /\ (pc[s] = "idle" /\ pc'[s] = "insert_one") =>
                /\ ~Found(users_collection, pending'[s].username)
                /\ users_collection' = users_collection
          /\ (pc[s] = "insert_one" /\ pc'[s] # "insert_one") =>
                /\ \A u \in DOMAIN users_collection :
                      /\ u \in DOMAIN users_collection'
                      /\ users_collection'[u] = users_collection[u]
                /\ DOMAIN users_collection' \subseteq
                       DOMAIN users_collection \cup {pending[s].username}]_vars

\* C13 witness: two registrations of one username have both passed the
\* existence check; the insert of the second has been refused, and the
\* document holds the digest of the first and the trip saved since
C13_Witness ==
    \E s \in Sessions :
        /\ pc[s] = "duplicate_key"
        /\ Found(users_collection, pending[s].username)
        /\ users_collection[pending[s].username].password
               # hash_password(pending[s].password)
        /\ users_collection[pending[s].username].travel_history # <<>>

\* the run of s has called generate_travel_response for the packing list and
\* got None: the endpoint raised in this call, or in the call whose value the
\* cache holds
PackingFailed(s) ==
    /\ pc[s] \in {"packing_response", "update_one", "tab2", "exception"}
    /\ local[s].packing_list.isNone
    /\ HasItinerary(s)
    /\ IsSuccess(local[s].itinerary)
    /\ ~DisplayRaises(local[s].itinerary)

\* C14: a run whose packing list failed shows its itinerary and no packing
\* list, goes on to add_to_history with that itinerary, and once update_one
\* has returned the history of its user holds the entry
C14_PackingFailureKeepsItinerary ==
    \A s \in Sessions :
        PackingFailed(s) =>
            /\ Rendered(s)
            /\ \A n \in 1..Len(screen[s]) : screen[s][n].el # "packing"
            /\ pc[s] \in {"update_one", "tab2", "exception"} =>
                   local[s].history_entry.itinerary = local[s].itinerary
            /\ pc[s] = "tab2" => Saved(s)

\* C14 witness: the endpoint raised during the packing call of a run, whose
\* page shows the itinerary and the error, and whose entry is in the history
C14_Witness ==
    \E s \in Sessions :
        /\ PackingFailed(s)
        /\ local[s].call = "miss"
        /\ pc[s] = "tab2"
        /\ Rendered(s)
        /\ \E n \in 1..Len(screen[s]) : screen[s][n].el = "error_ai_model"
        /\ Saved(s)

\* C15: a session is logged in only under a non-empty username that has a
\* document, and is logged out with an empty username; a step that logs a
\* session in does so with the username given and a password whose hash is
\* the digest of that document; a step that logs it out empties the username;
\* and a step that changes a document is the update_one of a run of a
\* logged-in session on the document of its username, and changes no other
C15_SessionInvariants ==
    /\ [](\A s \in Sessions :
            IF session_state[s].logged_in
            THEN /\ session_state[s].username # ""
                 /\ Found(users_collection, session_state[s].username)
            ELSE session_state[s].username = "")
    /\ [][/\ \A s \in Sessions :
              /\ (~session_state[s].logged_in /\ session_state'[s].logged_in) =>
                    /\ session_state'[s].username = pending'[s].username
                    /\ pending'[s].password # ""
                    /\ Found(users_collection, pending'[s].username)
                    /\ users_collection[pending'[s].username].password
                           = hash_password(pending'[s].password)
              /\ (session_state[s].logged_in /\ ~session_state'[s].logged_in) =>
                    session_state'[s].username = ""
          /\ \A u \in DOMAIN users_collection :
              users_collection'[u] # users_collection[u] =>
                 /\ \E s \in Sessions :
                       /\ pc[s] = "update_one" /\ pc'[s] \in {"tab2", "exception"}
                       /\ session_state[s].logged_in
                       /\ session_state[s].username = u
                 /\ users_collection'[u].password = users_collection[u].password
                 /\ \A o \in DOMAIN users_collection \ {u} :
                       users_collection'[o] = users_collection[o]]_vars

\* C15 witness: the run of a logged-in session has saved a trip while another
\* user, who has a trip too, is logged in on the other session
C15_Witness ==
    \E s, o \in Sessions :
        /\ session_state[s].logged_in /\ session_state[o].logged_in
        /\ session_state[s].username # session_state[o].username
        /\ pc[s] = "tab2"
        /\ Saved(s)
        /\ users_collection[session_state[o].username].travel_history # <<>>

====
